---- MODULE Spec2Model ----
(***************************************************************************)
(* Event-ingest and classification core of the eBPF auto-instrumentation   *)
(* agent: the ring-buffer record decoders of package ebpfcommon            *)
(* (common.go, httpfltr_transform.go, tcp_detect_transform.go), the kernel *)
(* capability probe (common.go), the ProcessTracer's PID calls and the     *)
(* Kubernetes decorator loop.  Each of the four has its own specification: *)
(* Spec, SpecProbe, SpecTracer and SpecDecorator.                          *)
(*                                                                         *)
(* Go strings and byte arrays are sequences of byte values 0..255; Go      *)
(* indices are 0-based, TLA+ sequences 1-based: every index operator below *)
(* returns the Go index (-1 when not found).                               *)
(***************************************************************************)
EXTENDS Integers, Sequences, FiniteSets, TLC

\* the ring-buffer reader: the record in hand and what the decoder made of it
VARIABLES record, result
\* the kernel capability probe: the file at lockdownPath, what KernelVersion()
\* returns, the flag IntegrityModeOverride and what the last probe returned
VARIABLES lockdownPath, kernelVersion, IntegrityModeOverride, capabilities
\* the ProcessTracer: its Programs, each with the calls it has received and
\* the PIDs it accepts, and the calls issued to the ProcessTracer so far
VARIABLES Programs, issued
\* the Kubernetes decorator: the number of batches sent to its input channel
\* so far, the batch waiting in the input channel, the batch waiting in the
\* output channel, and the number of batches the next stage has taken
VARIABLES sent, inChan, outChan, delivered

readerVars == <<record, result>>
probeVars == <<lockdownPath, kernelVersion, IntegrityModeOverride, capabilities>>
tracerVars == <<Programs, issued>>
decoratorVars == <<sent, inChan, outChan, delivered>>
vars == <<readerVars, probeVars, tracerVars, decoratorVars>>

(***************************************************************************)
(* Bounds of the model.                                                    *)
(***************************************************************************)
\* tokens in a generated request line
MaxReqTokens == 4
\* tokens in a generated header block
MaxHdrTokens == 4
\* tokens in a generated TCP payload
MaxSQLTokens == 2
\* capacity of the TCP payload buffer bpfTcpReqT.Buf, a generated type
TCPBufSize == 12
\* monotonic timestamps are drawn from 1..MaxNs
MaxNs == 2
\* words in a generated line of the lockdown file
MaxLockdownWords == 3
\* programs of a ProcessTracer
MaxPrograms == 2
\* PIDs are drawn from 1..MaxPID
MaxPID == 2
\* calls of AllowPID and BlockPID issued to a ProcessTracer
MaxCalls == 4
\* spans in a batch
MaxSpans == 2
\* batches sent to the decorator
MaxBatches == 2

(***************************************************************************)
(* Program constants.                                                      *)
(***************************************************************************)
EventTypeSQL == 5
EventTypeKHTTP == 6
EventTypeKHTTP2 == 7
EventTypeTCP == 8
\* request.EventTypeSQLClient
EventTypeSQLClient == 5
\* len(bpfHttpInfoT.Buf)
HTTPBufSize == 160
\* net.IPv6len
IPv6len == 16
NUL == 0
SP == 32
CR == 13
LF == 10
QMARK == 63
COLON == 58
LBRACKET == 91
RBRACKET == 93
\* type KernelLockdown
KernelLockdownNone == 1
KernelLockdownIntegrity == 2
KernelLockdownConfidentiality == 3
KernelLockdownOther == 4

(***************************************************************************)
(* Byte-string helpers (package strings / bytes).                          *)
(***************************************************************************)
Min(a, b) == IF a < b THEN a ELSE b

\* s[lo:hi] with Go's 0-based, half-open bounds
Slice(s, lo, hi) == SubSeq(s, lo + 1, hi)

\* strings.IndexByte / bytes.IndexByte
IndexByte(s, c) ==
    IF \E i \in 1..Len(s) : s[i] = c
    THEN (CHOOSE i \in 1..Len(s) : s[i] = c /\ \A j \in 1..(i - 1) : s[j] # c) - 1
    ELSE -1

\* the index of the last c in s
LastIndexByte(s, c) ==
    IF \E i \in 1..Len(s) : s[i] = c
    THEN (CHOOSE i \in 1..Len(s) : s[i] = c /\ \A j \in (i + 1)..Len(s) : s[j] # c) - 1
    ELSE -1

\* strings.IndexAny, chars given as a set of bytes
IndexAny(s, chars) ==
    IF \E i \in 1..Len(s) : s[i] \in chars
    THEN (CHOOSE i \in 1..Len(s) : s[i] \in chars /\ \A j \in 1..(i - 1) : s[j] \notin chars) - 1
    ELSE -1

\* sub occurs in s at the 1-based position i
HasPrefixAt(s, sub, i) ==
    /\ i + Len(sub) - 1 <= Len(s)
    /\ \A k \in 1..Len(sub) : s[i + k - 1] = sub[k]

\* strings.Index
Index(s, sub) ==
    IF \E i \in 1..Len(s) : HasPrefixAt(s, sub, i)
    THEN (CHOOSE i \in 1..Len(s) :
            HasPrefixAt(s, sub, i) /\ \A j \in 1..(i - 1) : ~HasPrefixAt(s, sub, j)) - 1
    ELSE -1

\* cstr: the bytes before the first zero byte, or all of them
cstr(chars) ==
    LET addrLen == IndexByte(chars, NUL)
    IN  IF addrLen < 0 THEN chars ELSE Slice(chars, 0, addrLen)

(***************************************************************************)
(* Literals of the sources, as byte strings.                               *)
(***************************************************************************)
\* "Host: "
HostLiteral == <<72, 111, 115, 116, 58, 32>>
\* " \r\n", the separators of strings.IndexAny in url()
URLSeparators == {SP, CR, LF}
\* ASCII control characters: 0x00-0x1F and 0x7F
ControlChars == (0..31) \cup {127}

(***************************************************************************)
(* strconv.Atoi as hostFromBuf uses it: the error is dropped, so a string  *)
(* that is no decimal number gives 0.                                      *)
(***************************************************************************)
IsDigit(c) == c >= 48 /\ c <= 57

RECURSIVE DigitsValue(_, _)
DigitsValue(s, acc) ==
    IF s = <<>> THEN acc
    ELSE DigitsValue(Tail(s), acc * 10 + (s[1] - 48))

Atoi(s) ==
    LET signed == s # <<>> /\ s[1] \in {43, 45}
        digits == IF signed THEN Tail(s) ELSE s
        valid  == digits # <<>> /\ \A k \in 1..Len(digits) : IsDigit(digits[k])
    IN  IF ~valid THEN 0
        ELSE IF signed /\ s[1] = 45 THEN 0 - DigitsValue(digits, 0)
        ELSE DigitsValue(digits, 0)

(***************************************************************************)
(* net.SplitHostPort: [host, port, err]; err is TRUE for every address the *)
(* library rejects (missing port, too many colons, unbalanced brackets).   *)
(***************************************************************************)
SplitHostPort(hostport) ==
    LET i == LastIndexByte(hostport, COLON)
        bad == [host |-> <<>>, port |-> <<>>, err |-> TRUE]
        n == Len(hostport)
    IN  IF i < 0 THEN bad
        ELSE IF hostport[1] = LBRACKET THEN
            LET end == IndexByte(hostport, RBRACKET)
            IN  IF end < 0 \/ end + 1 = n \/ end + 1 # i THEN bad
                ELSE IF IndexByte(Slice(hostport, 1, n), LBRACKET) >= 0 THEN bad
                ELSE IF IndexByte(Slice(hostport, end + 1, n), RBRACKET) >= 0 THEN bad
                ELSE [host |-> Slice(hostport, 1, end),
                      port |-> Slice(hostport, i + 1, n), err |-> FALSE]
        ELSE
            LET host == Slice(hostport, 0, i)
            IN  IF IndexByte(host, COLON) >= 0 THEN bad
                ELSE IF IndexByte(hostport, LBRACKET) >= 0 THEN bad
                ELSE IF IndexByte(hostport, RBRACKET) >= 0 THEN bad
                ELSE [host |-> host, port |-> Slice(hostport, i + 1, n), err |-> FALSE]

(***************************************************************************)
(* net.IP.String of a 16-byte address: dotted quad for an IPv4-mapped      *)
(* address, else lowercase hexadecimal groups with the longest run of zero *)
(* groups written "::".                                                    *)
(***************************************************************************)
RECURSIVE Itoa(_)
Itoa(n) == IF n < 10 THEN <<48 + n>> ELSE Itoa(n \div 10) \o <<48 + (n % 10)>>

HexDigit(d) == IF d < 10 THEN 48 + d ELSE 87 + d

RECURSIVE Hex(_)
Hex(n) == IF n < 16 THEN <<HexDigit(n)>> ELSE Hex(n \div 16) \o <<HexDigit(n % 16)>>

IsIPv4Mapped(ip) ==
    /\ \A k \in 1..10 : ip[k] = 0
    /\ ip[11] = 255
    /\ ip[12] = 255

\* the 16-bit group that starts at Go byte offset i
Group(ip, i) == ip[i + 1] * 256 + ip[i + 2]

\* end (Go byte offset) of the run of zero groups that starts at offset i
RECURSIVE ZeroRunEnd(_, _)
ZeroRunEnd(ip, j) ==
    IF j < IPv6len /\ Group(ip, j) = 0 THEN ZeroRunEnd(ip, j + 2) ELSE j

\* the scan for the longest run of zero groups: <<e0, e1>>
RECURSIVE LongestZeroRun(_, _, _, _)
LongestZeroRun(ip, i, e0, e1) ==
    IF i >= IPv6len THEN <<e0, e1>>
    ELSE LET j == ZeroRunEnd(ip, i)
         IN  IF j > i /\ j - i > e1 - e0
             THEN LongestZeroRun(ip, j + 2, i, j)
             ELSE LongestZeroRun(ip, i + 2, e0, e1)

RECURSIVE IPv6Groups(_, _, _, _)
IPv6Groups(ip, i, e0, e1) ==
    IF i >= IPv6len THEN <<>>
    ELSE IF i = e0 THEN
        <<COLON, COLON>> \o
        (IF e1 >= IPv6len THEN <<>>
         ELSE Hex(Group(ip, e1)) \o IPv6Groups(ip, e1 + 2, e0, e1))
    ELSE (IF i > 0 THEN <<COLON>> ELSE <<>>) \o
         Hex(Group(ip, i)) \o IPv6Groups(ip, i + 2, e0, e1)

IPString(ip) ==
    IF IsIPv4Mapped(ip)
    THEN Itoa(ip[13]) \o <<46>> \o Itoa(ip[14]) \o <<46>> \o Itoa(ip[15]) \o <<46>> \o Itoa(ip[16])
    ELSE LET run == LongestZeroRun(ip, 0, -1, -1)
             e0 == IF run[2] - run[1] <= 2 THEN -1 ELSE run[1]
             e1 == IF run[2] - run[1] <= 2 THEN -1 ELSE run[2]
         IN  IPv6Groups(ip, 0, e0, e1)

(***************************************************************************)
(* request.Span and the values the decoders return.                        *)
(***************************************************************************)
\* request.Span{}
ZeroSpan ==
    [Type |-> 0, Method |-> <<>>, Path |-> <<>>, Peer |-> <<>>, Host |-> <<>>,
     HostPort |-> 0, ContentLength |-> 0, RequestStart |-> 0, Start |-> 0,
     End |-> 0, Status |-> 0, Statement |-> <<>>]

\* return request.Span{}, true, err; reads counts the binary.Read calls made:
\* the read of the type byte and, when that succeeded, the read of the layout
Failed(decoder, err) ==
    [ret |-> "returned", decoder |-> decoder, span |-> ZeroSpan, ignore |-> TRUE,
     err |-> err, reads |-> IF decoder = "none" THEN 1 ELSE 2]

\* return span, false, nil
Emitted(decoder, span) ==
    [ret |-> "returned", decoder |-> decoder, span |-> span, ignore |-> FALSE,
     err |-> "nil", reads |-> 2]

\* return request.Span{}, true, nil
Ignored(decoder) ==
    [ret |-> "returned", decoder |-> decoder, span |-> ZeroSpan, ignore |-> TRUE,
     err |-> "nil", reads |-> 2]

\* a run-time panic: the function does not return
Panicked(decoder) ==
    [ret |-> "panic", decoder |-> decoder, span |-> ZeroSpan, ignore |-> TRUE,
     err |-> "nil", reads |-> 2]

\* binary.Read of a fixed-size layout from record.RawSample: nil when the
\* sample holds the whole layout, else io.EOF or io.ErrUnexpectedEOF
BinaryRead(rec) ==
    CASE rec.raw = "full"  -> "nil"
      [] rec.raw = "short" -> "ErrUnexpectedEOF"
      [] rec.raw = "empty" -> "EOF"

(***************************************************************************)
(* httpfltr_transform.go                                                   *)
(***************************************************************************)
\* removeQuery cutting at the last '?' instead of the first
removeQueryLastIndex(u) ==
    LET idx == LastIndexByte(u, QMARK)
    IN  IF idx > 0 THEN Slice(u, 0, idx) ELSE u

removeQuery(u) ==
    LET idx == IndexByte(u, QMARK)
    IN  IF idx > 0 THEN Slice(u, 0, idx) ELSE u

url(event) ==
    LET buf == event.Buf
        space == Index(buf, <<SP>>)
        zero == IndexByte(buf, NUL)
        bufEnd == IF zero < 0 THEN Len(buf) ELSE zero
    IN  IF space < 0 THEN <<>>
        ELSE IF space + 1 > bufEnd THEN <<>>
        ELSE LET nextSpace == IndexAny(Slice(buf, space + 1, bufEnd), URLSeparators)
                 end == Min(nextSpace + space + 1, bufEnd)
             IN  IF nextSpace < 0 THEN Slice(buf, space + 1, bufEnd)
                 ELSE Slice(buf, space + 1, end)

method(event) ==
    LET buf == event.Buf
        space == Index(buf, <<SP>>)
    IN  IF space < 0 THEN <<>> ELSE Slice(buf, 0, space)

\* [host, port]; port is -1 when no host was found
hostFromBuf(event) ==
    LET buf == cstr(event.Buf)
        idx == Index(buf, HostLiteral)
        rest == Slice(buf, idx + Len(HostLiteral), Len(buf))
        cr == Index(rest, <<CR>>)
        rIdx == IF cr < 0 THEN Len(rest) ELSE cr
        split == SplitHostPort(Slice(rest, 0, rIdx))
    IN  IF idx < 0 THEN [host |-> <<>>, port |-> -1]
        ELSE IF split.err THEN [host |-> <<>>, port |-> -1]
        ELSE [host |-> split.host, port |-> Atoi(split.port)]

\* hostInfo with source and target exchanged
hostInfoSwapped(event) == <<IPString(event.D_addr), IPString(event.S_addr)>>

\* <<source, target>>
hostInfo(event) == <<IPString(event.S_addr), IPString(event.D_addr)>>

\* the uint16 conversion of ReadHTTPInfoIntoSpan
Uint16(n) == n % 65536

httpInfoToSpan(info) ==
    [Type |-> info.Type, Method |-> info.Method, Path |-> removeQuery(info.URL),
     Peer |-> info.Peer, Host |-> info.Host, HostPort |-> info.D_port,
     ContentLength |-> info.Len, RequestStart |-> info.Start, Start |-> info.Start,
     End |-> info.End, Status |-> info.Status, Statement |-> <<>>]

\* the HTTPInfo that ReadHTTPInfoIntoSpan fills in from a decoded event
HTTPInfoOf(event) ==
    LET hi == hostInfo(event)
        hb == hostFromBuf(event)
        conn == event.S_port # 0 \/ event.D_port # 0
    IN  [Type |-> event.Type, Len |-> event.Len, Start |-> event.Start,
         End |-> event.End, Status |-> event.Status,
         Host |-> IF conn THEN hi[2] ELSE IF hb.port >= 0 THEN hb.host ELSE <<>>,
         Peer |-> IF conn THEN hi[1] ELSE <<>>,
         D_port |-> IF conn THEN event.D_port
                    ELSE IF hb.port >= 0 THEN Uint16(hb.port) ELSE event.D_port,
         URL |-> url(event), Method |-> method(event)]

\* ReadHTTPInfoIntoSpan without the check of binary.Read's error
ReadHTTPInfoIntoSpanUnchecked(rec) ==
    Emitted("khttp", httpInfoToSpan(HTTPInfoOf(rec)))

ReadHTTPInfoIntoSpan(rec) ==
    IF BinaryRead(rec) # "nil" THEN Failed("khttp", BinaryRead(rec))
    ELSE Emitted("khttp", httpInfoToSpan(HTTPInfoOf(rec)))

(***************************************************************************)
(* tcp_detect_transform.go                                                 *)
(***************************************************************************)
\* "SELECT", "UPDATE", "DELETE", "INSERT", "ALTER", "CREATE", "DROP", in the
\* order isSQL tries them
SQLVerbs ==
    << <<83, 69, 76, 69, 67, 84>>, <<85, 80, 68, 65, 84, 69>>,
       <<68, 69, 76, 69, 84, 69>>, <<73, 78, 83, 69, 82, 84>>,
       <<65, 76, 84, 69, 82>>, <<67, 82, 69, 65, 84, 69>>, <<68, 82, 79, 80>> >>

\* the UTF-8 encoding of utf8.RuneError (U+FFFD)
RuneError == <<239, 191, 189>>

\* strings.ToUpper on the bytes the payloads are made of: an ASCII lower-case
\* letter becomes its upper-case letter, any other ASCII byte is kept, and a
\* byte that is no valid UTF-8 (0xFF) is replaced by the three bytes of
\* U+FFFD, as strings.Map does.  No multi-byte sequence occurs in a payload.
RECURSIVE ToUpper(_)
ToUpper(s) ==
    IF s = <<>> THEN <<>>
    ELSE LET c == s[1]
         IN  (IF c >= 97 /\ c <= 122 THEN <<c - 32>>
              ELSE IF c < 128 THEN <<c>>
              ELSE RuneError) \o ToUpper(Tail(s))

RECURSIVE FirstVerbIndex(_, _)
FirstVerbIndex(b, k) ==
    IF k > Len(SQLVerbs) THEN -1
    ELSE LET i == Index(b, SQLVerbs[k])
         IN  IF i >= 0 THEN i ELSE FirstVerbIndex(b, k + 1)

isSQL(buf) == FirstVerbIndex(ToUpper(buf), 1)

\* <<source, target>>
reqHostInfo(trace) == <<IPString(trace.S_addr), IPString(trace.D_addr)>>

\* sqlprune.SQLParseOperationAndTable: <<operation, table>>.  The operation is
\* the verb the statement starts with; the table is not modelled.
SQLParseOperationAndTable(sql) ==
    LET up == ToUpper(sql)
        starts == {k \in 1..Len(SQLVerbs) : HasPrefixAt(up, SQLVerbs[k], 1)}
    IN  IF starts = {} THEN <<(<<>>), (<<>>)>>
        ELSE <<SQLVerbs[CHOOSE k \in starts : TRUE], (<<>>)>>

TCPToSQLToSpan(trace, s) ==
    LET sql == cstr(s)
        parsed == SQLParseOperationAndTable(sql)
        conn == trace.S_port # 0 \/ trace.D_port # 0
        hi == reqHostInfo(trace)
    IN  [Type |-> EventTypeSQLClient, Method |-> parsed[1], Path |-> parsed[2],
         Peer |-> IF conn THEN hi[1] ELSE <<>>,
         Host |-> IF conn THEN hi[2] ELSE <<>>,
         HostPort |-> IF conn THEN trace.D_port ELSE 0,
         ContentLength |-> 0, RequestStart |-> trace.Start, Start |-> trace.Start,
         End |-> trace.End, Status |-> 0, Statement |-> sql]

\* a value of the uint32 field len far above every buffer capacity
HugeLen == 2^30

\* PayloadLen without the clamp: the whole buffer is classified
PayloadLenWholeBuffer(event) == Len(event.Buf)

\* the length of the payload that is classified
PayloadLen(event) ==
    IF event.Len < 0 \/ Len(event.Buf) < event.Len THEN Len(event.Buf) ELSE event.Len

ReadTCPRequestIntoSpan(rec) ==
    IF BinaryRead(rec) # "nil" THEN Failed("tcp", BinaryRead(rec))
    ELSE LET buf == Slice(rec.Buf, 0, PayloadLen(rec))
             sqlIndex == isSQL(buf)
         IN  IF sqlIndex >= 0
             THEN IF sqlIndex > Len(buf)
                  THEN Panicked("tcp")   \* buf[sqlIndex:]: slice bounds out of range
                  ELSE Emitted("tcp", TCPToSQLToSpan(rec, Slice(buf, sqlIndex, Len(buf))))
             ELSE Ignored("tcp")

(***************************************************************************)
(* common.go                                                               *)
(***************************************************************************)
\* SQLRequestTraceToSpan: the mechanical field mapping of a decoded SQL trace
SQLRequestTraceToSpan(event) ==
    [ZeroSpan EXCEPT !.Type = EventTypeSQLClient, !.RequestStart = event.Start,
                     !.Start = event.Start, !.End = event.End, !.Status = event.Status]

\* HTTPRequestTraceToSpan: the mechanical field mapping of a legacy HTTP trace
HTTPRequestTraceToSpan(event) ==
    [ZeroSpan EXCEPT !.Type = event.Type, !.RequestStart = event.Start,
                     !.Start = event.Start, !.End = event.End, !.Status = event.Status]

\* http2FromBuffers: the mechanical field mapping of a decoded HTTP/2 record
HTTP2InfoToSpan(event) ==
    [ZeroSpan EXCEPT !.Type = event.Type, !.RequestStart = event.Start,
                     !.Start = event.Start, !.End = event.End, !.Status = event.Status]

ReadSQLRequestTraceAsSpan(rec) ==
    IF BinaryRead(rec) # "nil" THEN Failed("sql", BinaryRead(rec))
    ELSE Emitted("sql", SQLRequestTraceToSpan(rec))

ReadHTTP2InfoIntoSpan(rec) ==
    IF BinaryRead(rec) # "nil" THEN Failed("khttp2", BinaryRead(rec))
    ELSE Emitted("khttp2", HTTP2InfoToSpan(rec))

\* the tail of ReadHTTPRequestTraceAsSpan: the legacy HTTP trace layout
ReadLegacyHTTPTrace(rec) ==
    IF BinaryRead(rec) # "nil" THEN Failed("legacy", BinaryRead(rec))
    ELSE Emitted("legacy", HTTPRequestTraceToSpan(rec))

\* ReadHTTPRequestTraceAsSpan without the case for EventTypeTCP
ReadHTTPRequestTraceAsSpanNoTCPCase(rec) ==
    IF rec.raw = "empty" THEN Failed("none", "EOF")
    ELSE CASE rec.eventType = EventTypeSQL    -> ReadSQLRequestTraceAsSpan(rec)
           [] rec.eventType = EventTypeKHTTP  -> ReadHTTPInfoIntoSpan(rec)
           [] rec.eventType = EventTypeKHTTP2 -> ReadHTTP2InfoIntoSpan(rec)
           [] OTHER                           -> ReadLegacyHTTPTrace(rec)

ReadHTTPRequestTraceAsSpan(rec) ==
    IF rec.raw = "empty" THEN Failed("none", "EOF")
    ELSE CASE rec.eventType = EventTypeSQL    -> ReadSQLRequestTraceAsSpan(rec)
           [] rec.eventType = EventTypeKHTTP  -> ReadHTTPInfoIntoSpan(rec)
           [] rec.eventType = EventTypeKHTTP2 -> ReadHTTP2InfoIntoSpan(rec)
           [] rec.eventType = EventTypeTCP    -> ReadTCPRequestIntoSpan(rec)
           [] OTHER                           -> ReadLegacyHTTPTrace(rec)

(***************************************************************************)
(* common.go: the kernel capability probe.                                 *)
(***************************************************************************)
\* "none", "integrity", "confidentiality"
NoneWord == <<110, 111, 110, 101>>
IntegrityWord == <<105, 110, 116, 101, 103, 114, 105, 116, 121>>
ConfidentialityWord ==
    <<99, 111, 110, 102, 105, 100, 101, 110, 116, 105, 97, 108, 105, 116, 121>>

Bracketed(w) == <<LBRACKET>> \o w \o <<RBRACKET>>

\* strings.Contains
Contains(s, sub) == Index(s, sub) >= 0

\* bufio.Scanner.Scan on a file that holds the bytes content: there is a
\* first line unless the file is empty
ScannerScan(content) == content # <<>>

\* bufio.Scanner.Text after the first Scan: the first line without its line
\* end (LF, or CR LF)
ScannerText(content) ==
    LET lf == IndexByte(content, LF)
        line == IF lf < 0 THEN content ELSE Slice(content, 0, lf)
    IN  IF line # <<>> /\ line[Len(line)] = CR
        THEN Slice(line, 0, Len(line) - 1)
        ELSE line

\* KernelLockdownMode matching the words without their brackets
KernelLockdownModeUnbracketed(file) ==
    IF file.stat = "missing" THEN KernelLockdownNone
    ELSE IF file.stat = "unopenable" THEN KernelLockdownIntegrity
    ELSE IF ~ScannerScan(file.content) THEN KernelLockdownIntegrity
    ELSE LET lockdown == ScannerText(file.content)
         IN  CASE Contains(lockdown, NoneWord) -> KernelLockdownNone
               [] Contains(lockdown, IntegrityWord) -> KernelLockdownIntegrity
               [] Contains(lockdown, ConfidentialityWord) -> KernelLockdownConfidentiality
               [] OTHER -> KernelLockdownOther

\* file is the file at lockdownPath: os.Stat fails on a "missing" file,
\* os.Open on an "unopenable" one
KernelLockdownMode(file) ==
    IF file.stat = "missing" THEN KernelLockdownNone
    ELSE IF file.stat = "unopenable" THEN KernelLockdownIntegrity
    ELSE IF ~ScannerScan(file.content) THEN KernelLockdownIntegrity
    ELSE LET lockdown == ScannerText(file.content)
         IN  CASE Contains(lockdown, Bracketed(NoneWord)) -> KernelLockdownNone
               [] Contains(lockdown, Bracketed(IntegrityWord)) -> KernelLockdownIntegrity
               [] Contains(lockdown, Bracketed(ConfidentialityWord)) ->
                      KernelLockdownConfidentiality
               [] OTHER -> KernelLockdownOther

\* version is <<kernelMajor, kernelMinor>>, what KernelVersion() returns
SupportsContextPropagation(version, file) ==
    LET kernelMajor == version[1]
        kernelMinor == version[2]
    IN  IF kernelMajor < 5 \/ (kernelMajor = 5 /\ kernelMinor < 10) THEN TRUE
        ELSE KernelLockdownMode(file) = KernelLockdownNone

(***************************************************************************)
(* ProcessTracer and its Programs.  A program is what a Tracer keeps of    *)
(* the PIDsAccounter calls: calls, the calls it has received in their      *)
(* order, and allowed, the PIDs it accepts traces from.                    *)
(***************************************************************************)
\* a Tracer that has received no call
NewProgram == [calls |-> <<>>, allowed |-> {}]

\* Tracer.AllowPID
TracerAllowPID(program, pid) ==
    [calls |-> Append(program.calls, <<"AllowPID", pid>>),
     allowed |-> program.allowed \cup {pid}]

\* Tracer.BlockPID
TracerBlockPID(program, pid) ==
    [calls |-> Append(program.calls, <<"BlockPID", pid>>),
     allowed |-> program.allowed \ {pid}]

\* ProcessTracer.AllowPID: the loop over pt.Programs
AllowPID(programs, pid) ==
    [i \in 1..Len(programs) |-> TracerAllowPID(programs[i], pid)]

\* BlockPID with a loop that starts behind the first program
BlockPIDFromSecond(programs, pid) ==
    [i \in 1..Len(programs) |->
        IF i = 1 THEN programs[i] ELSE TracerBlockPID(programs[i], pid)]

\* ProcessTracer.BlockPID: the loop over pt.Programs
BlockPID(programs, pid) ==
    [i \in 1..Len(programs) |-> TracerBlockPID(programs[i], pid)]

(***************************************************************************)
(* The Kubernetes decorator.  A span is its Pid.Namespace and its          *)
(* ServiceID; ServiceID.Metadata is a map that may be nil: nil says        *)
(* whether it is, entries holds its <<key, value>> pairs.                  *)
(***************************************************************************)
\* a nil map
NilMap == [nil |-> TRUE, entries |-> {}]

\* map[attr.Name]string{}
EmptyMap == [nil |-> FALSE, entries |-> {}]

\* m[key] = value
MapSet(m, key, value) ==
    [nil |-> FALSE,
     entries |-> {e \in m.entries : e[1] # key} \cup {<<key, value>>}]

\* the loop over the chain of owners: owners is the chain from info.Owner on
RECURSIVE SetOwners(_, _)
SetOwners(m, owners) ==
    IF owners = <<>> THEN m
    ELSE SetOwners(MapSet(m, owners[1].LabelName, owners[1].Name), Tail(owners))

\* the map literal of appendMetadata
PodMetadata(info) ==
    [nil |-> FALSE,
     entries |-> {<<"K8sNamespaceName", info.Namespace>>, <<"K8sPodName", info.Name>>,
                  <<"K8sNodeName", info.NodeName>>, <<"K8sPodUID", info.UID>>,
                  <<"K8sPodStartTime", info.StartTimeStr>>}]

\* appendMetadata that sets the service name whatever AutoName says
appendMetadataAnyName(span, info) ==
    [span EXCEPT
        !.ServiceID.Name = info.ServiceName,
        !.ServiceID.Namespace = IF @ = "" THEN info.Namespace ELSE @,
        !.ServiceID.UID = info.UID,
        !.ServiceID.Metadata = SetOwners(PodMetadata(info), info.Owners)]

appendMetadata(span, info) ==
    [span EXCEPT
        !.ServiceID.Name = IF span.ServiceID.AutoName THEN info.ServiceName ELSE @,
        !.ServiceID.Namespace = IF @ = "" THEN info.Namespace ELSE @,
        !.ServiceID.UID = info.UID,
        !.ServiceID.Metadata = SetOwners(PodMetadata(info), info.Owners)]

\* the pod of the database: a pod of a ReplicaSet of a Deployment
Pod ==
    [ServiceName |-> "deployment-a", Namespace |-> "k8s-ns", Name |-> "pod-a",
     NodeName |-> "node-a", UID |-> "pod-uid", StartTimeStr |-> "start",
     Owners |-> << [LabelName |-> "K8sReplicaSetName", Name |-> "replicaset-a"],
                   [LabelName |-> "K8sDeploymentName", Name |-> "deployment-a"] >>]

\* the PID namespace of the pod, and one that no pod owns
PodNamespace == "pod-pidns"
HostNamespace == "host-pidns"

\* md.db.OwnerPodInfo: <<podInfo, ok>>
OwnerPodInfo(pidNamespace) ==
    IF pidNamespace = PodNamespace THEN <<Pod, TRUE>> ELSE <<Pod, FALSE>>

\* metadataDecorator.do
do(span) ==
    LET owner == OwnerPodInfo(span.Pid.Namespace)
    IN  IF owner[2] THEN appendMetadata(span, owner[1])
        ELSE [span EXCEPT !.ServiceID.Metadata = EmptyMap]

\* the inner loop of nodeLoop: every span of the batch decorated in place
Decorated(spans) == [i \in 1..Len(spans) |-> do(spans[i])]

(***************************************************************************)
(* The records the ring buffer delivers.  A record is its RawSample: raw   *)
(* says how much of it there is ("empty": no byte; "short": the type byte  *)
(* but less than the layout of its kind; "full": the whole layout),        *)
(* eventType is its first byte, and the other fields are those of the      *)
(* layout.                                                                 *)
(***************************************************************************)
Rec(raw, eventType, conn, start, end, buf, len) ==
    [raw |-> raw, eventType |-> eventType,
     S_addr |-> conn.S_addr, D_addr |-> conn.D_addr,
     S_port |-> conn.S_port, D_port |-> conn.D_port,
     Start |-> start, End |-> end, Buf |-> buf, Len |-> len,
     Status |-> 200, Type |-> 1]

\* ::ffff:10.0.0.1, ::ffff:10.0.0.2, fe80::1 and the zero address
AddrA == <<0, 0, 0, 0, 0, 0, 0, 0, 0, 0, 255, 255, 10, 0, 0, 1>>
AddrB == <<0, 0, 0, 0, 0, 0, 0, 0, 0, 0, 255, 255, 10, 0, 0, 2>>
AddrV6 == <<254, 128, 0, 0, 0, 0, 0, 0, 0, 0, 0, 0, 0, 0, 0, 1>>
ZeroAddr == <<0, 0, 0, 0, 0, 0, 0, 0, 0, 0, 0, 0, 0, 0, 0, 0>>

AddrPairs == {<<AddrA, AddrB>>, <<AddrV6, AddrA>>}

Conns ==
    {[S_addr |-> p[1], D_addr |-> p[2], S_port |-> sp, D_port |-> dp] :
        p \in AddrPairs, sp \in {0, 8080}, dp \in {0, 443}}

\* connection information unavailable: everything zero
NoConn == [S_addr |-> ZeroAddr, D_addr |-> ZeroAddr, S_port |-> 0, D_port |-> 0]

\* the concatenations of at most n tokens of T
RECURSIVE TokSeqs(_, _)
TokSeqs(T, n) ==
    IF n = 0 THEN {<<>>}
    ELSE LET S == TokSeqs(T, n - 1) IN S \cup {s \o t : s \in S, t \in T}

\* b in a buffer of size n, the rest filled with byte p
Pad(b, n, p) == b \o [i \in 1..(n - Len(b)) |-> p]

\* "GET ", "/a", "?", " ", "\r\n", "\t", "\0"
ReqTokens ==
    {<<71, 69, 84, 32>>, <<47, 97>>, <<63>>, <<32>>, <<13, 10>>, <<9>>, <<0>>}

\* "Host: ", "h", ":80", ":x", ":-1", ":70000", "\r\n"
HdrTokens ==
    {HostLiteral, <<104>>, <<58, 56, 48>>, <<58, 120>>, <<58, 45, 49>>,
     <<58, 55, 48, 48, 48, 48>>, <<13, 10>>}

\* "GET /a HTTP/1.1\r\n"
ReqPrefix ==
    <<71, 69, 84, 32, 47, 97, 32, 72, 84, 84, 80, 47, 49, 46, 49, 13, 10>>

\* the seven verbs, "select", a byte that is no UTF-8, three of them, "\0", "x"
SQLTokens ==
    {SQLVerbs[k] : k \in 1..Len(SQLVerbs)} \cup
    {<<115, 101, 108, 101, 99, 116>>, <<255>>, <<255, 255, 255>>, <<0>>, <<120>>}

Times == (1..MaxNs) \X (1..MaxNs)

\* the bytes that fill a buffer behind its contents: zero (a zero-initialised
\* buffer) or 'x' (a buffer filled to its end, without a zero terminator)
PadBytes == {NUL, 120}

ReqLines == TokSeqs(ReqTokens, MaxReqTokens)

\* header blocks, with and without a closing CR LF
HdrBlocks ==
    {h \o e : h \in TokSeqs(HdrTokens \ {<<13, 10>>}, MaxHdrTokens - 1),
              e \in {<<>>, <<13, 10>>}}

Payloads == {x \in TokSeqs(SQLTokens, MaxSQLTokens) : Len(x) <= TCPBufSize}

\* a kprobe-HTTP record without connection information whose buffer holds
\* the request line b and is filled with byte p
RequestLineRecord(b, p) ==
    Rec("full", EventTypeKHTTP, NoConn, 1, 2, Pad(b, HTTPBufSize, p), Len(b))

\* a kprobe-HTTP record of connection c whose buffer holds a request line and
\* the header block h
HeaderRecord(c, h) ==
    Rec("full", EventTypeKHTTP, c, 1, 2, Pad(ReqPrefix \o h, HTTPBufSize, NUL),
        Len(ReqPrefix \o h))

\* a kprobe-HTTP record of connection c with the timestamps t
TimedHTTPRecord(c, t) ==
    Rec("full", EventTypeKHTTP, c, t[1], t[2], Pad(ReqPrefix, HTTPBufSize, NUL),
        Len(ReqPrefix))

\* a TCP record of connection c with the timestamps t, the payload b in its
\* zero-initialised buffer and the len field l
TCPRecord(c, t, b, l) ==
    Rec("full", EventTypeTCP, c, t[1], t[2], Pad(b, TCPBufSize, NUL), l)

\* a record whose payload is not looked at: the sample is short, or of the
\* SQL, HTTP/2 or legacy kind
PlainRecord(raw, k, t) == Rec(raw, k, NoConn, t[1], t[2], <<>>, 0)

\* the connections of the TCP records: none, and one with both ports set
TCPConns == {NoConn, CHOOSE c \in Conns : c.S_port # 0 /\ c.D_port # 0}

(***************************************************************************)
(* The state machine: the reader loop blocks on the ring buffer, hands the *)
(* record it reads to ReadHTTPRequestTraceAsSpan, forwards or drops what   *)
(* the decoder returned and blocks again.  record is the record in hand    *)
(* and result what the decoder made of it.                                 *)
(***************************************************************************)
NoRecord == Rec("empty", 0, NoConn, 0, 0, <<>>, 0)

NoResult ==
    [ret |-> "none", decoder |-> "none", span |-> ZeroSpan, ignore |-> TRUE,
     err |-> "nil", reads |-> 0]

\* the file at lockdownPath: missing, present but not to be opened, or
\* present with a line of at most MaxLockdownWords words, each with or
\* without brackets, with or without a line end
LockdownTokens ==
    {NoneWord, IntegrityWord, ConfidentialityWord, Bracketed(NoneWord),
     Bracketed(IntegrityWord), Bracketed(ConfidentialityWord), Bracketed(<<120>>)}

RECURSIVE LockdownLines(_)
LockdownLines(n) ==
    IF n = 0 THEN {<<>>}
    ELSE LET S == LockdownLines(n - 1)
         IN  S \cup {IF l = <<>> THEN t ELSE l \o <<SP>> \o t : l \in S, t \in LockdownTokens}

MissingFile == [stat |-> "missing", content |-> <<>>]

LockdownFiles ==
    {MissingFile, [stat |-> "unopenable", content |-> <<>>]} \cup
    {[stat |-> "present", content |-> l \o e] :
        l \in LockdownLines(MaxLockdownWords), e \in {<<>>, <<LF>>}}

\* <<major, minor>> below, at and above 5.10
KernelVersions == {<<4, 18>>, <<5, 9>>, <<5, 10>>, <<5, 15>>, <<6, 1>>}

\* no probe has run
NoCapabilities == [call |-> "none", lockdown |-> 0, supported |-> FALSE]

ReaderIdle ==
    /\ record = NoRecord
    /\ result = NoResult

ProbeIdle ==
    /\ lockdownPath = MissingFile
    /\ kernelVersion = <<5, 15>>
    /\ IntegrityModeOverride = FALSE
    /\ capabilities = NoCapabilities

\* a ProcessTracer without programs
TracerIdle ==
    /\ Programs = <<>>
    /\ issued = <<>>

\* a decorator that has received no batch
DecoratorIdle ==
    /\ sent = 0
    /\ inChan = <<>>
    /\ outChan = <<>>
    /\ delivered = 0

Init ==
    /\ ReaderIdle
    /\ ProbeIdle
    /\ TracerIdle
    /\ DecoratorIdle

\* record rec is read and decoded
Read(rec) ==
    /\ record' = rec
    /\ result' = ReadHTTPRequestTraceAsSpan(rec)
    /\ UNCHANGED <<probeVars, tracerVars, decoratorVars>>

\* one record is read from the ring buffer and decoded: a kprobe-HTTP record
\* (a request line, a header block under every connection, every pair of
\* timestamps), a TCP record (every payload under every len field, every pair
\* of timestamps), a record of another kind, a short sample or an empty one
ReadRecord ==
    /\ result = NoResult
    /\ \/ \E b \in ReqLines, p \in PadBytes : Read(RequestLineRecord(b, p))
       \/ \E c \in Conns, h \in HdrBlocks : Read(HeaderRecord(c, h))
       \/ \E c \in {NoConn} \cup Conns, t \in Times : Read(TimedHTTPRecord(c, t))
       \/ \E c \in TCPConns, b \in Payloads, l \in (0..(TCPBufSize + 1)) \cup {HugeLen} :
               Read(TCPRecord(c, <<1, 2>>, b, l))
       \/ \E t \in Times : Read(TCPRecord(NoConn, t, SQLVerbs[1], Len(SQLVerbs[1])))
       \/ \E raw \in {"short", "full"}, t \in Times,
             k \in (0..255) \ {EventTypeKHTTP, EventTypeTCP} : Read(PlainRecord(raw, k, t))
       \/ \E k \in {EventTypeKHTTP, EventTypeTCP} : Read(PlainRecord("short", k, <<1, 2>>))
       \/ Read(NoRecord)

\* the span is forwarded or the record dropped, and the loop blocks again
NextRecord ==
    /\ result.ret = "returned"
    /\ record' = NoRecord
    /\ result' = NoResult
    /\ UNCHANGED <<probeVars, tracerVars, decoratorVars>>

Next == ReadRecord \/ NextRecord

Spec == Init /\ [][Next]_vars

(***************************************************************************)
(* The state machine of the capability probe: on a host with some lockdown *)
(* file, kernel version and override flag, KernelLockdownMode and          *)
(* SupportsContextPropagation are called; capabilities is what the last    *)
(* call returned.                                                          *)
(***************************************************************************)
InitProbe ==
    /\ ReaderIdle
    /\ lockdownPath \in LockdownFiles
    /\ kernelVersion \in KernelVersions
    /\ IntegrityModeOverride \in BOOLEAN
    /\ capabilities = NoCapabilities
    /\ TracerIdle
    /\ DecoratorIdle

CallKernelLockdownMode ==
    /\ capabilities' = [call |-> "KernelLockdownMode",
                        lockdown |-> KernelLockdownMode(lockdownPath),
                        supported |-> FALSE]
    /\ UNCHANGED <<lockdownPath, kernelVersion, IntegrityModeOverride, readerVars, tracerVars,
                   decoratorVars>>

CallSupportsContextPropagation ==
    /\ capabilities' = [call |-> "SupportsContextPropagation",
                        lockdown |-> 0,
                        supported |-> SupportsContextPropagation(kernelVersion, lockdownPath)]
    /\ UNCHANGED <<lockdownPath, kernelVersion, IntegrityModeOverride, readerVars, tracerVars,
                   decoratorVars>>

NextProbe == CallKernelLockdownMode \/ CallSupportsContextPropagation

SpecProbe == InitProbe /\ [][NextProbe]_vars

(***************************************************************************)
(* Properties.                                                             *)
(***************************************************************************)
\* a record has been decoded and the decoder returned
Returned == result.ret = "returned"

\* the decoder returned a Span with ignore=false
EmittedBy(decoder) == Returned /\ result.decoder = decoder /\ ~result.ignore

\* the layout of the record in hand was decoded by the given decoder
Decoded(kind) == result.ret # "none" /\ record.raw = "full" /\ record.eventType = kind

\* C1: the first byte of the record selects the decoder: 5 the SQL decoder,
\* 6 the kprobe-HTTP decoder, 7 the HTTP/2 decoder, 8 the TCP classifier and
\* every other value the legacy HTTP trace layout.
C1_Dispatch ==
    (result.ret # "none" /\ record.raw # "empty") =>
        result.decoder =
            CASE record.eventType = 5 -> "sql"
              [] record.eventType = 6 -> "khttp"
              [] record.eventType = 7 -> "khttp2"
              [] record.eventType = 8 -> "tcp"
              [] OTHER -> "legacy"

C1_Witness ==
    /\ Returned
    /\ record.raw = "full"
    /\ record.eventType = 255
    /\ result.decoder = "legacy"
    /\ ~result.ignore

\* C2: a record that cannot be decoded (an empty or short sample) gives a
\* non-nil error, ignore=true and the zero Span, after one read of the type
\* byte and at most one read of the layout; and ignore=false comes with a nil
\* error only.
C2_DecodeError ==
    Returned =>
        /\ record.raw # "full" =>
              /\ result.err # "nil"
              /\ result.ignore
              /\ result.span = ZeroSpan
              /\ result.reads = (IF record.raw = "empty" THEN 1 ELSE 2)
        /\ ~result.ignore => result.err = "nil"

C2_Witness ==
    /\ Returned
    /\ record.raw = "short"
    /\ record.eventType = 6
    /\ result.err = "ErrUnexpectedEOF"
    /\ result.ignore

\* upper-casing of the ASCII letters only: the byte positions stay the same
AsciiUpper(s) == [i \in 1..Len(s) |-> IF s[i] >= 97 /\ s[i] <= 122 THEN s[i] - 32 ELSE s[i]]

\* the payload of the TCP record in hand: buf[:len], len clamped to the capacity
Payload == Slice(record.Buf, 0, Min(record.Len, Len(record.Buf)))

\* verb k occurs in s at Go index j, whatever the case of its letters
VerbAt(s, k, j) == HasPrefixAt(AsciiUpper(s), SQLVerbs[k], j + 1)

VerbOccurs(s) == \E k \in 1..Len(SQLVerbs) : \E j \in 0..Len(s) : VerbAt(s, k, j)

\* C3: a decoded TCP record gives a Span if and only if a SQL verb occurs in
\* buf[:len]; without a verb it is dropped with ignore=true, a nil error and
\* the zero Span; and an emitted Span has kind SQLClient and status 0.
C3_SpanIffVerb ==
    Decoded(8) =>
        /\ EmittedBy("tcp") <=> VerbOccurs(Payload)
        /\ ~VerbOccurs(Payload) => result = Ignored("tcp")
        /\ EmittedBy("tcp") => result.span.Type = 5 /\ result.span.Status = 0

\* C4: the index isSQL returns is the earliest occurrence of any of the seven
\* verbs: no verb occurs at a smaller index of the upper-cased payload that
\* isSQL searches.
C4_EarliestVerb ==
    Decoded(8) =>
        LET b == ToUpper(Payload)
            i == isSQL(Payload)
        IN  i >= 0 =>
              \A k \in 1..Len(SQLVerbs) : \A j \in 0..(i - 1) :
                  ~HasPrefixAt(b, SQLVerbs[k], j + 1)

HeaderValue ==
    LET buf == cstr(record.Buf)
        rest == Slice(buf, Index(buf, HostLiteral) + Len(HostLiteral), Len(buf))
        cr == IndexByte(rest, CR)
    IN  IF cr < 0 THEN rest ELSE Slice(rest, 0, cr)

HasHeader == Index(cstr(record.Buf), HostLiteral) >= 0

\* v read as host[:port]: [ok, host, hasPort, port], the port decimal
HostOptPort(v) ==
    LET c == IndexByte(v, COLON)
        portStr == Slice(v, c + 1, Len(v))
    IN  IF c < 0 THEN [ok |-> TRUE, host |-> v, hasPort |-> FALSE, port |-> 0]
        ELSE IF portStr # <<>> /\ \A k \in 1..Len(portStr) : IsDigit(portStr[k])
        THEN [ok |-> TRUE, host |-> Slice(v, 0, c), hasPort |-> TRUE,
              port |-> DigitsValue(portStr, 0)]
        ELSE [ok |-> FALSE, host |-> <<>>, hasPort |-> FALSE, port |-> 0]

\* C6: on the header path a header value that reads as host[:port] gives the
\* Span that host and that port, and any other value, or no header, leaves
\* the host empty and takes no port.
C6_HostHeader ==
    (EmittedBy("khttp") /\ record.S_port = 0 /\ record.D_port = 0) =>
        LET p == HostOptPort(HeaderValue)
            sp == result.span
        IN  IF HasHeader /\ p.ok
            THEN sp.Host = p.host /\ (p.hasPort => sp.HostPort = p.port)
            ELSE sp.Host = <<>> /\ sp.HostPort = 0

HasControl(s) == \E i \in 1..Len(s) : s[i] \in ControlChars

\* C7: the method and the path of a Span of a kprobe-HTTP record hold no
\* ASCII control character.
C7_NoControlChars ==
    EmittedBy("khttp") => ~HasControl(result.span.Method) /\ ~HasControl(result.span.Path)

\* C8: the path of a Span of a kprobe-HTTP record is the URL up to its first
\* '?', so it holds no '?'.
C8_NoQuery ==
    EmittedBy("khttp") =>
        LET u == url(record)
            q == IndexByte(u, QMARK)
        IN  /\ IndexByte(result.span.Path, QMARK) < 0
            /\ result.span.Path = (IF q < 0 THEN u ELSE Slice(u, 0, q))

\* C9: removeQuery is idempotent: applied to what it returned, for the URL
\* of the record in hand and for the path of the Span, it changes nothing.
C9_Idempotent ==
    EmittedBy("khttp") =>
        /\ removeQuery(removeQuery(url(record))) = removeQuery(url(record))
        /\ removeQuery(result.span.Path) = result.span.Path

CountByte(s, c) == Cardinality({i \in 1..Len(s) : s[i] = c})

\* a URL with several '?', the first not at its start, was cut
C9_Witness ==
    /\ EmittedBy("khttp")
    /\ CountByte(url(record), QMARK) >= 2
    /\ IndexByte(url(record), QMARK) > 0
    /\ result.span.Path # url(record)

\* C10: a Span returned with ignore=false has start_ns <= end_ns, and a record
\* whose start_ns is greater than its end_ns yields no Span.
C10_StartBeforeEnd ==
    (Returned /\ result.decoder \in {"khttp", "tcp"}) =>
        /\ ~result.ignore => result.span.Start <= result.span.End
        /\ (record.raw = "full" /\ record.Start > record.End) => result.ignore

\* the record in hand with everything behind the first min(len, capacity)
\* bytes of its buffer replaced by the bytes of tail
Refilled(tail) ==
    [record EXCEPT !.Buf = Slice(Payload \o tail, 0, Len(record.Buf))]

\* what may lie behind the payload: zeros, 'x', and SQL verbs
Tails ==
    {[i \in 1..(TCPBufSize + 1) |-> NUL], [i \in 1..(TCPBufSize + 1) |-> 120],
     SQLVerbs[1] \o SQLVerbs[2] \o SQLVerbs[7], SQLVerbs[7] \o SQLVerbs[5] \o SQLVerbs[3]}

\* C11: the TCP classifier looks at the first min(len, capacity) bytes of buf
\* only: a len above the capacity acts as the capacity, and the outcome is
\* the same whatever bytes lie at and behind index len.
C11_LenClamp ==
    Decoded(8) =>
        /\ PayloadLen(record) = Min(record.Len, TCPBufSize)
        /\ result = ReadTCPRequestIntoSpan([record EXCEPT !.Len = Min(record.Len, TCPBufSize)])
        /\ \A tail \in Tails : result = ReadTCPRequestIntoSpan(Refilled(tail))
        /\ EmittedBy("tcp") => Len(result.span.Statement) <= Min(record.Len, TCPBufSize)

\* a len above the capacity on a buffer filled to its end: the statement is
\* the whole buffer
C11_Witness ==
    /\ EmittedBy("tcp")
    /\ record.Len > TCPBufSize
    /\ Len(record.Buf) = TCPBufSize
    /\ result.span.Statement = record.Buf

\* a verb behind index len is not seen: the record is dropped
C11_WitnessBeyond ==
    /\ Decoded(8)
    /\ result = Ignored("tcp")
    /\ record.Len < Len(SQLVerbs[1])
    /\ HasPrefixAt(record.Buf, SQLVerbs[1], 1)

\* C16: the index isSQL returns is a valid offset into the original payload
\* at which a verb starts: slicing the payload at it never goes out of range,
\* and the statement of the Span begins, whatever the case of its letters,
\* with a SQL verb.
C16_ValidIndex ==
    Decoded(8) =>
        LET i == isSQL(Payload)
        IN  i >= 0 =>
              /\ i <= Len(Payload)
              /\ result.ret = "returned"
              /\ \E k \in 1..Len(SQLVerbs) : VerbAt(Payload, k, i)
              /\ EmittedBy("tcp")
              /\ \E k \in 1..Len(SQLVerbs) : VerbAt(result.span.Statement, k, 0)

\* the Host: header of the record in hand, split as hostFromBuf splits it
HeaderSplit == SplitHostPort(HeaderValue)

\* the port of the header is written as a decimal number without a sign
DecimalPort ==
    /\ HasHeader
    /\ ~HeaderSplit.err
    /\ HeaderSplit.port # <<>>
    /\ \A k \in 1..Len(HeaderSplit.port) : IsDigit(HeaderSplit.port[k])

\* the port of the header is a decimal number with a minus sign
NegativePort ==
    /\ HasHeader
    /\ ~HeaderSplit.err
    /\ Len(HeaderSplit.port) >= 2
    /\ HeaderSplit.port[1] = 45
    /\ \A k \in 2..Len(HeaderSplit.port) : IsDigit(HeaderSplit.port[k])

\* C17: on the header path the port of the Span is the decimal number that
\* the Host: header holds, also when that number is above 65535, and a header
\* with a negative port sets no host.
C17_HeaderPort ==
    (EmittedBy("khttp") /\ record.S_port = 0 /\ record.D_port = 0) =>
        /\ DecimalPort => result.span.HostPort = DigitsValue(HeaderSplit.port, 0)
        /\ NegativePort => result.span.Host = <<>> /\ result.span.HostPort = 0

(***************************************************************************)
(* The state machine of the ProcessTracer: process discovery calls         *)
(* AllowPID and BlockPID, one call after the other.                        *)
(***************************************************************************)
PIDs == 1..MaxPID

InitTracer ==
    /\ ReaderIdle
    /\ ProbeIdle
    /\ \E n \in 0..MaxPrograms : Programs = [i \in 1..n |-> NewProgram]
    /\ issued = <<>>
    /\ DecoratorIdle

CallAllowPID ==
    /\ Len(issued) < MaxCalls
    /\ \E pid \in PIDs :
          /\ Programs' = AllowPID(Programs, pid)
          /\ issued' = Append(issued, <<"AllowPID", pid>>)
    /\ UNCHANGED <<readerVars, probeVars, decoratorVars>>

CallBlockPID ==
    /\ Len(issued) < MaxCalls
    /\ \E pid \in PIDs :
          /\ Programs' = BlockPID(Programs, pid)
          /\ issued' = Append(issued, <<"BlockPID", pid>>)
    /\ UNCHANGED <<readerVars, probeVars, decoratorVars>>

NextTracer == CallAllowPID \/ CallBlockPID

SpecTracer == InitTracer /\ [][NextTracer]_vars

(***************************************************************************)
(* The state machine of the Kubernetes decorator: the stage before it      *)
(* sends batches of spans to the input channel; nodeLoop takes one batch   *)
(* at a time, decorates its spans and sends it to the output channel.      *)
(***************************************************************************)
\* a span as it reaches the decorator: Metadata not yet made
NewSpan(pidNamespace, autoName, namespace) ==
    [Pid |-> [Namespace |-> pidNamespace],
     ServiceID |-> [Name |-> "user-name", Namespace |-> namespace, UID |-> "",
                    AutoName |-> autoName, Metadata |-> NilMap]]

Spans ==
    {NewSpan(PodNamespace, a, n) : a \in BOOLEAN, n \in {"", "user-ns"}} \cup
    {NewSpan(HostNamespace, TRUE, ""), NewSpan(HostNamespace, FALSE, "user-ns")}

\* the slices of at most MaxSpans spans
Batches == UNION {[1..n -> Spans] : n \in 0..MaxSpans}

InitDecorator ==
    /\ ReaderIdle
    /\ ProbeIdle
    /\ TracerIdle
    /\ DecoratorIdle

\* the stage before sends a batch to in and blocks until nodeLoop takes it.
\* A batch in a channel is the slice spans with two history values: seq, its
\* number in the order of sending, and received, the spans as they were sent
Send ==
    /\ sent < MaxBatches
    /\ inChan = <<>>
    /\ \E spans \in Batches :
          inChan' = <<[seq |-> sent + 1, received |-> spans, spans |-> spans]>>
    /\ sent' = sent + 1
    /\ UNCHANGED <<outChan, delivered, readerVars, probeVars, tracerVars>>

\* one turn of the loop of nodeLoop: a batch is taken from in, its spans are
\* decorated in place, and it is sent to out
nodeLoop ==
    /\ inChan # <<>>
    /\ outChan = <<>>
    /\ inChan' = Tail(inChan)
    /\ outChan' = <<[Head(inChan) EXCEPT !.spans = Decorated(@)]>>
    /\ UNCHANGED <<sent, delivered, readerVars, probeVars, tracerVars>>

\* the next stage takes the batch from out
Deliver ==
    /\ outChan # <<>>
    /\ outChan' = Tail(outChan)
    /\ delivered' = delivered + 1
    /\ UNCHANGED <<sent, inChan, readerVars, probeVars, tracerVars>>

NextDecorator == Send \/ nodeLoop \/ Deliver

SpecDecorator == InitDecorator /\ [][NextDecorator]_vars

(***************************************************************************)
(* Properties of the capability probe, of the ProcessTracer and of the     *)
(* Kubernetes decorator.                                                   *)
(***************************************************************************)
\* the words in brackets in s: what lies between a '[' and the next ']'
BracketedWords(s) ==
    {Slice(s, i, (CHOOSE j \in (i + 1)..Len(s) :
                     s[j] = RBRACKET /\ \A k \in (i + 1)..(j - 1) : s[k] # RBRACKET) - 1) :
        i \in {i \in 1..Len(s) :
                 s[i] = LBRACKET /\ \E j \in (i + 1)..Len(s) : s[j] = RBRACKET}}

\* the number of '[' in s
Brackets(s) == Cardinality({i \in 1..Len(s) : s[i] = LBRACKET})

\* the mode a word names
ModeOf(w) ==
    CASE w = NoneWord -> KernelLockdownNone
      [] w = IntegrityWord -> KernelLockdownIntegrity
      [] w = ConfidentialityWord -> KernelLockdownConfidentiality
      [] OTHER -> KernelLockdownOther

\* "none [integrity] confidentiality"
IntegritySelected ==
    NoneWord \o <<SP>> \o Bracketed(IntegrityWord) \o <<SP>> \o ConfidentialityWord

\* C12: KernelLockdownMode returns None for a missing file, Integrity for a
\* file that cannot be opened and for an empty file, the mode that the word
\* in brackets names for a file with one word in brackets, and Other for any
\* other content without a named word in brackets.
C12_LockdownMode ==
    capabilities.call = "KernelLockdownMode" =>
        LET c == lockdownPath.content
            mode == capabilities.lockdown
        IN  CASE lockdownPath.stat = "missing" -> mode = KernelLockdownNone
              [] lockdownPath.stat = "unopenable" -> mode = KernelLockdownIntegrity
              [] OTHER ->
                   /\ c = <<>> => mode = KernelLockdownIntegrity
                   /\ (c # <<>> /\ Brackets(c) = 0) => mode = KernelLockdownOther
                   /\ Brackets(c) = 1 =>
                         \A w \in BracketedWords(c) : mode = ModeOf(w)
                   /\ c = IntegritySelected => mode = KernelLockdownIntegrity

C12_Witness ==
    /\ capabilities.call = "KernelLockdownMode"
    /\ lockdownPath.stat = "present"
    /\ lockdownPath.content = IntegritySelected \o <<LF>>
    /\ capabilities.lockdown = KernelLockdownIntegrity

\* the kernel is older than 5.10
Before510 == kernelVersion[1] < 5 \/ (kernelVersion[1] = 5 /\ kernelVersion[2] < 10)

\* C13: SupportsContextPropagation returns true exactly when the kernel is
\* older than 5.10, or the lockdown mode is None and IntegrityModeOverride is
\* not set.
C13_ContextPropagation ==
    capabilities.call = "SupportsContextPropagation" =>
        capabilities.supported =
            (\/ Before510
             \/ /\ KernelLockdownMode(lockdownPath) = KernelLockdownNone
                /\ ~IntegrityModeOverride)

\* C14: with IntegrityModeOverride set the lockdown mode is Integrity,
\* whatever the lockdown file holds and also when it is missing.
C14_OverrideForcesIntegrity ==
    (capabilities.call = "KernelLockdownMode" /\ IntegrityModeOverride) =>
        capabilities.lockdown = KernelLockdownIntegrity

\* the calls issued for PID p, in their order
CallsFor(p) == SelectSeq(issued, LAMBDA c : c[2] = p)

\* the last call issued for PID p was AllowPID
LastAllows(p) ==
    CallsFor(p) # <<>> /\ CallsFor(p)[Len(CallsFor(p))][1] = "AllowPID"

\* C15: every program of the ProcessTracer has received the calls that were
\* issued, in the order they were issued in; so all programs agree on every
\* PID, and a PID is accepted exactly if the last call for it was AllowPID.
C15_SameCallsSameOrder ==
    \A i \in 1..Len(Programs) :
        /\ Programs[i].calls = issued
        /\ \A j \in 1..Len(Programs) : Programs[i].allowed = Programs[j].allowed
        /\ \A p \in PIDs : p \in Programs[i].allowed <=> LastAllows(p)

\* AllowPID(p), then BlockPID(p), on a ProcessTracer with several programs:
\* p is blocked in every program
C15_Witness ==
    /\ Len(Programs) >= 2
    /\ \E p \in PIDs :
          /\ CallsFor(p) = << <<"AllowPID", p>>, <<"BlockPID", p>> >>
          /\ \A i \in 1..Len(Programs) : p \notin Programs[i].allowed

\* span after is span before with nothing but its service name, namespace,
\* UID and metadata touched, the name only under AutoName, the namespace only
\* when it was empty, the metadata not nil, and empty without an owner pod
DecoratedFrom(before, after) ==
    /\ after.Pid = before.Pid
    /\ after.ServiceID.AutoName = before.ServiceID.AutoName
    /\ after.ServiceID.Name # before.ServiceID.Name => before.ServiceID.AutoName
    /\ after.ServiceID.Namespace # before.ServiceID.Namespace =>
          before.ServiceID.Namespace = ""
    /\ ~after.ServiceID.Metadata.nil
    /\ before.Pid.Namespace # PodNamespace =>
          /\ after.ServiceID.Metadata.entries = {}
          /\ after.ServiceID.Name = before.ServiceID.Name
          /\ after.ServiceID.Namespace = before.ServiceID.Namespace
    /\ before.Pid.Namespace = PodNamespace =>
          /\ before.ServiceID.AutoName => after.ServiceID.Name = Pod.ServiceName
          /\ before.ServiceID.Namespace = "" => after.ServiceID.Namespace = Pod.Namespace
          /\ <<"K8sPodName", Pod.Name>> \in after.ServiceID.Metadata.entries

\* C18: the batches leave the decorator in the order they arrived in, each
\* once (the batch in out is the one after the last batch taken from out,
\* the batch in in the one after that, and none is missing), with the same
\* number of spans; and every span is the span received with its service
\* name replaced only under AutoName, its namespace only when it was empty,
\* and a metadata map that is not nil and is empty when no pod owns the
\* span's PID namespace.
C18_DecoratorLoop ==
    /\ delivered + Len(outChan) + Len(inChan) = sent
    /\ \A k \in 1..Len(outChan) :
          /\ outChan[k].seq = delivered + k
          /\ Len(outChan[k].spans) = Len(outChan[k].received)
          /\ \A i \in 1..Len(outChan[k].received) :
                DecoratedFrom(outChan[k].received[i], outChan[k].spans[i])
    /\ \A k \in 1..Len(inChan) :
          /\ inChan[k].seq = delivered + Len(outChan) + k
          /\ inChan[k].spans = inChan[k].received

\* the second batch has been decorated and waits in out: a span of the pod
\* that asked for its name, and a span without a pod
C18_Witness ==
    /\ delivered = 1
    /\ Len(outChan) = 1
    /\ outChan[1].seq = 2
    /\ outChan[1].received =
          <<NewSpan(PodNamespace, TRUE, ""), NewSpan(HostNamespace, FALSE, "user-ns")>>
    /\ outChan[1].spans[1].ServiceID.Name = Pod.ServiceName
    /\ outChan[1].spans[1].ServiceID.Namespace = Pod.Namespace
    /\ outChan[1].spans[2].ServiceID.Name = "user-name"
    /\ outChan[1].spans[2].ServiceID.Metadata = EmptyMap

====
